---- MODULE Spec2Model ----
(***************************************************************************)
(* Verification model of the blogs-db client singletons:                   *)
(*   src/prisma/client.ts   (getPrismaClient, disconnectPrisma, cleanup)   *)
(*   src/mongodb/client.ts  (connectMongoDB, disconnectMongoDB, cleanup)   *)
(* JavaScript runs one callback at a time: every action below is one       *)
(* synchronous run of library code, from a call (or the resumption after   *)
(* an await) up to the next await or return.  An awaited driver promise    *)
(* that has not settled yet is an element of a bag of pending operations.  *)
(* The drivers are the library's environment: new PrismaClient(...) does   *)
(* not connect and returns a client; $disconnect() and                     *)
(* mongoose.connection.close() fulfil whether the pool or connection is    *)
(* open or already closed; mongoose.connect fulfils or rejects.            *)
(***************************************************************************)
EXTENDS Integers, FiniteSets, Sequences, Bags, TLC

\* ------------------------------------------------------------------ bounds
MaxClients == 3      \* PrismaClient constructor runs explored
MaxTeardowns == 3    \* $disconnect invocations explored
MaxGets == 3         \* getPrismaClient calls explored
MaxSignals == 2      \* process events (beforeExit/SIGINT/SIGTERM) delivered
MaxConnects == 3     \* mongoose.connect invocations explored
MaxCloses == 3       \* mongoose.connection.close invocations explored
MaxDocs == 2         \* documents in the document store, all collections together, up to which inserts are explored
MaxRows == 2         \* rows in the relational store, all tables together, up to which inserts are explored

\* --------------------------------------------------------------- constants
NULL == 0                                   \* the null handle
Clients == 1..MaxClients                    \* identities of PrismaClient objects
ProcessEvents == {"beforeExit", "SIGINT", "SIGTERM"}
MongoSignals == {"SIGINT", "SIGTERM"}
ConnectionEvents == {"error", "disconnected"}
EnvValues == {"unset", "empty", "value"}    \* process.env.MONGODB_URI: undefined, '', a non-empty string
DatabaseUrls == {"unset", "value"}          \* process.env.DATABASE_URL: undefined or a connection string
NodeEnvs == {"unset", "development", "production"}
DriverErrors == {"ECONNREFUSED", "ETIMEDOUT"}
MissingUriMessage == "MONGODB_URI environment variable is not set"

\* ------------------------------------------------- the relational schema
\* migration.sql: the tables, with the columns a key or a foreign key names
Tables == {"users", "profiles", "sessions", "posts", "categories", "tags",
           "post_categories", "post_tags", "comments", "likes", "bookmarks",
           "media", "media_variants"}
Ids == {1, 2}                               \* values of the "id" of users, posts, comments and of the rows that reference them
Authors == {1}                              \* values of an authorId / userId column no foreign key constrains
CategoryIds == {1, 2}
TagIds == {1}
MediaIds == {1}
Emails == {"a@x", "b@x"}
Usernames == {"ann", "bob"}
Slugs == {"first", "second"}

\* The rows a statement may name, table by table.  parentId is the only
\* nullable column among them.
RowsOf(t) ==
  CASE t = "users"           -> [id : Ids, email : Emails, username : Usernames]
    [] t = "profiles"        -> [id : Ids, userId : Ids]
    [] t = "sessions"        -> [id : Ids, userId : Ids]
    [] t = "posts"           -> [id : Ids, authorId : Authors, slug : Slugs]
    [] t = "categories"      -> [id : CategoryIds, parentId : CategoryIds \cup {NULL}]
    [] t = "tags"            -> [id : TagIds]
    [] t = "post_categories" -> [postId : Ids, categoryId : CategoryIds]
    [] t = "post_tags"       -> [postId : Ids, tagId : TagIds]
    [] t = "comments"        -> [id : Ids, postId : Ids, authorId : Authors, parentId : Ids \cup {NULL}]
    [] t = "likes"           -> [id : Ids, userId : Authors, postId : Ids]
    [] t = "bookmarks"       -> [id : Ids, userId : Authors, postId : Ids]
    [] t = "media"           -> [id : MediaIds, userId : Authors]
    [] t = "media_variants"  -> [id : Ids, mediaId : MediaIds]

\* migration.sql: CONSTRAINT ..._pkey PRIMARY KEY (...)
PrimaryKey(t) ==
  CASE t = "post_categories" -> {"postId", "categoryId"}
    [] t = "post_tags"       -> {"postId", "tagId"}
    [] OTHER                 -> {"id"}

\* migration.sql: CREATE UNIQUE INDEX ... (on the columns modelled)
UniqueIndexes(t) ==
  CASE t = "users"     -> {{"email"}, {"username"}}
    [] t = "profiles"  -> {{"userId"}}
    [] t = "posts"     -> {{"slug"}}
    [] t = "likes"     -> {{"userId", "postId"}}
    [] t = "bookmarks" -> {{"userId", "postId"}}
    [] OTHER           -> {}

\* Variant of UniqueKeys: only the primary key is enforced.
UniqueKeysPrimaryOnly(t) == {PrimaryKey(t)}

\* the keys PostgreSQL keeps unique in table t
UniqueKeys(t) == {PrimaryKey(t)} \cup UniqueIndexes(t)

ForeignKey(table, column, references, onDelete) ==
  [table |-> table, column |-> column, references |-> references, onDelete |-> onDelete]

\* Variant of ForeignKeys: authored content references its author.
ForeignKeysWithAuthors ==
  { ForeignKey("profiles", "userId", "users", "CASCADE"),
    ForeignKey("sessions", "userId", "users", "CASCADE"),
    ForeignKey("posts", "authorId", "users", "CASCADE"),
    ForeignKey("comments", "authorId", "users", "CASCADE"),
    ForeignKey("comments", "postId", "posts", "CASCADE") }

\* migration.sql: ALTER TABLE ... ADD CONSTRAINT ... FOREIGN KEY (column)
\* REFERENCES references("id") ON DELETE onDelete
ForeignKeys ==
  { ForeignKey("profiles", "userId", "users", "CASCADE"),
    ForeignKey("sessions", "userId", "users", "CASCADE"),
    ForeignKey("categories", "parentId", "categories", "SET NULL"),
    ForeignKey("post_categories", "postId", "posts", "CASCADE"),
    ForeignKey("post_categories", "categoryId", "categories", "CASCADE"),
    ForeignKey("post_tags", "postId", "posts", "CASCADE"),
    ForeignKey("post_tags", "tagId", "tags", "CASCADE"),
    ForeignKey("comments", "postId", "posts", "CASCADE"),
    ForeignKey("comments", "parentId", "comments", "SET NULL"),
    ForeignKey("likes", "postId", "posts", "CASCADE"),
    ForeignKey("bookmarks", "postId", "posts", "CASCADE"),
    ForeignKey("media_variants", "mediaId", "media", "CASCADE") }

\* what a client observes of a statement: its outcome, the columns of the
\* unique key a rejection names, and the number of rows inserted or deleted
Statement(stmt, table, outcome, key, rows) ==
  [stmt |-> stmt, table |-> table, outcome |-> outcome, key |-> key, rows |-> rows]

EmptyDb == [t \in Tables |-> {}]

\* A store holding content: two posts; the first has a comment, a like, a
\* bookmark, a category and a tag, the second has a reply to the first
\* post's comment.
Content ==
  [t \in Tables |->
     CASE t = "posts"           -> {[id |-> 1, authorId |-> 1, slug |-> "first"],
                                    [id |-> 2, authorId |-> 1, slug |-> "second"]}
       [] t = "categories"      -> {[id |-> 1, parentId |-> NULL]}
       [] t = "tags"            -> {[id |-> 1]}
       [] t = "post_categories" -> {[postId |-> 1, categoryId |-> 1]}
       [] t = "post_tags"       -> {[postId |-> 1, tagId |-> 1]}
       [] t = "comments"        -> {[id |-> 1, postId |-> 1, authorId |-> 1, parentId |-> NULL],
                                    [id |-> 2, postId |-> 2, authorId |-> 1, parentId |-> 1]}
       [] t = "likes"           -> {[id |-> 1, userId |-> 1, postId |-> 1]}
       [] t = "bookmarks"       -> {[id |-> 1, userId |-> 1, postId |-> 1]}
       [] OTHER                 -> {}]

\* A store holding an account: a user with a profile and two sessions, who
\* wrote a post, commented on it and uploaded a file.
Account ==
  [t \in Tables |->
     CASE t = "users"    -> {[id |-> 1, email |-> "a@x", username |-> "ann"]}
       [] t = "profiles" -> {[id |-> 1, userId |-> 1]}
       [] t = "sessions" -> {[id |-> 1, userId |-> 1], [id |-> 2, userId |-> 1]}
       [] t = "posts"    -> {[id |-> 1, authorId |-> 1, slug |-> "first"]}
       [] t = "comments" -> {[id |-> 1, postId |-> 1, authorId |-> 1, parentId |-> NULL]}
       [] t = "media"    -> {[id |-> 1, userId |-> 1]}
       [] OTHER          -> {}]

\* ------------------------------------------------- the document schemas
\* README, Available Models, MongoDB (Mongoose): the model handles the
\* package lists as available
AvailableModels ==
  {"PageViewModel", "AnalyticsEventModel", "UserActivityModel",
   "NotificationModel", "NotificationQueueModel", "EmailLogModel", "PushNotificationLogModel",
   "AuditLogModel", "SystemLogModel", "ErrorLogModel", "PerformanceLogModel"}

\* mongodb/models.ts: the model handles the barrel exports
ExportedModels == {"PageViewModel", "NotificationModel", "AuditLogModel"}

\* the collection a model handle writes to (the schema's `collection` option)
CollectionOf(m) ==
  CASE m = "PageViewModel"     -> "pageViews"
    [] m = "NotificationModel" -> "notifications"
    [] m = "AuditLogModel"     -> "auditLogs"
    [] OTHER                   -> "none"

Collections == {"notifications", "pageViews", "auditLogs"}
Absent == -1                                \* a field the document does not have
NoTtl == -1                                 \* an index without expireAfterSeconds

Index(key, expireAfterSeconds) == [key |-> key, expireAfterSeconds |-> expireAfterSeconds]

\* notification.schema.ts: the indexes the schema declares, in the order in
\* which they are built: first the fields declared `index: true`, then the
\* schema.index(...) calls.
NotificationSchema ==
  << Index(<<"userId", 1>>, NoTtl),
     Index(<<"type", 1>>, NoTtl),
     Index(<<"createdAt", 1>>, NoTtl),
     Index(<<"userId", 1, "createdAt", -1>>, NoTtl),
     Index(<<"userId", 1, "channels.inApp.read", 1>>, NoTtl),
     Index(<<"priority", 1, "createdAt", -1>>, NoTtl),
     Index(<<"expiresAt", 1>>, 0) >>

\* page-view.schema.ts
PageViewSchema ==
  << Index(<<"postId", 1>>, NoTtl),
     Index(<<"userId", 1>>, NoTtl),
     Index(<<"sessionId", 1>>, NoTtl),
     Index(<<"timestamp", 1>>, NoTtl),
     Index(<<"postId", 1, "timestamp", -1>>, NoTtl),
     Index(<<"userId", 1, "timestamp", -1>>, NoTtl),
     Index(<<"device.type", 1>>, NoTtl),
     Index(<<"timestamp", 1>>, 7776000) >>

\* audit-log.schema.ts
AuditLogSchema ==
  << Index(<<"userId", 1>>, NoTtl),
     Index(<<"action", 1>>, NoTtl),
     Index(<<"resource", 1>>, NoTtl),
     Index(<<"timestamp", 1>>, NoTtl),
     Index(<<"userId", 1, "timestamp", -1>>, NoTtl),
     Index(<<"resource", 1, "resourceId", 1, "timestamp", -1>>, NoTtl),
     Index(<<"action", 1, "timestamp", -1>>, NoTtl),
     Index(<<"timestamp", 1>>, 63072000) >>

SchemaOf(c) ==
  CASE c = "notifications" -> NotificationSchema
    [] c = "pageViews"     -> PageViewSchema
    [] c = "auditLogs"     -> AuditLogSchema

\* the expireAfterSeconds of the TTL index a schema declares
DeclaredTtl(c) == SchemaOf(c)[Len(SchemaOf(c))].expireAfterSeconds

\* the date field each collection's TTL index is declared on
TtlField(c) == IF c = "notifications" THEN "expiresAt" ELSE "timestamp"

\* The instants of the clock, in seconds: the start, a second later, and the
\* seconds around the two retention periods.
Instants == {0, 1, 7776000, 7776001, 63072000, 63072001}
Dates == {0, 1}                             \* the dates a writer puts into a record

VARIABLES
  \* ---- src/prisma/client.ts
  prisma,           \* module variable `prisma`: NULL or the cached client
  constructed,      \* number of `new PrismaClient(...)` runs; clients are 1..constructed
  logConfig,        \* client -> the `log` option it was constructed with
  poolOpen,         \* clients whose pool no completed $disconnect has closed yet
  disconnectCalls,  \* client -> number of $disconnect() invocations on it
  prismaHooks,      \* process event -> number of Prisma `cleanup` listeners registered
  prismaPending,    \* bag of awaited $disconnect promises: [kind, client]
  \* ---- src/mongodb/client.ts
  isConnected,      \* module variable `isConnected`
  connState,        \* driver state of mongoose.connection: closed, open or dropped
  connectCalls,     \* number of mongoose.connect invocations
  closeCalls,       \* number of mongoose.connection.close invocations
  connListeners,    \* connection event -> number of listeners registered by the library
  mongoHooks,       \* process signal -> number of Mongo `cleanup` listeners registered
  mongoPending,     \* bag of awaited driver promises: [kind]
  \* ---- process environment
  env,              \* process.env: DATABASE_URL, MONGODB_URI, NODE_ENV
  reachable,        \* the document store accepts connections
  signals,          \* process events delivered so far
  \* ---- observation
  lastP,            \* the most recent step of prisma/client.ts and what its caller observed
  lastM,            \* the most recent step of mongodb/client.ts and what its caller observed
  returnLog,        \* the handles returned by the getPrismaClient calls, in call order
  handed,           \* handle returned by the latest getPrismaClient call, NULL once a teardown completed
  tornDown,         \* client torn down by the latest resolved disconnectPrisma, NULL once re-acquired
  reconnect,        \* progress of a disconnectMongoDB-then-connectMongoDB sequence
  \* ---- the Node process
  exited,           \* the process has terminated
  hostHandles,      \* the host keeps the event loop alive with a handle of its own
  \* ---- the relational store (prisma/migrations, migration.sql)
  db,               \* table name -> the set of its rows
  lastSql,          \* the most recent SQL statement and its outcome
  \* ---- the document store (mongodb/schemas)
  now,              \* the store's clock, in seconds
  indexes,          \* collection -> the indexes built on it
  docs,             \* collection -> the set of its documents
  lastTtl           \* the most recent step of the document store

prismaVars == <<prisma, constructed, logConfig, poolOpen, disconnectCalls,
                prismaHooks, prismaPending>>
mongoVars == <<isConnected, connState, connectCalls, closeCalls, connListeners,
               mongoHooks, mongoPending>>
envVars == <<env, reachable>>
prismaObs == <<lastP, returnLog, handed, tornDown>>
mongoObs == <<lastM, reconnect>>
processVars == <<exited, hostHandles>>
sqlVars == <<db, lastSql>>
ttlVars == <<now, indexes, docs, lastTtl>>
storeVars == <<sqlVars, ttlVars>>
clientVars == <<prismaVars, mongoVars, envVars, signals, prismaObs, mongoObs, processVars>>
vars == <<clientVars, storeVars>>

\* ----------------------------------------------------------------- helpers
\* JavaScript truthiness of an environment string: undefined and '' are falsy.
Truthy(v) == v = "value"

\* Variant of LogLevels: every mode but production logs queries.
LogLevelsUnlessProduction(nodeEnv) ==
  IF nodeEnv # "production" THEN <<"query", "error", "warn">> ELSE <<"error">>

\* client.ts:9  the `log` option chosen from NODE_ENV
LogLevels(nodeEnv) ==
  IF nodeEnv = "development" THEN <<"query", "error", "warn">> ELSE <<"error">>

Observation(op, phase, client, err) ==
  [op |-> op, phase |-> phase, client |-> client, err |-> err]

MongoObservation(op, phase, cause, err) ==
  [op |-> op, phase |-> phase, cause |-> cause, err |-> err]

TotalDisconnectCalls ==
  LET RECURSIVE Sum(_)
      Sum(n) == IF n = 0 THEN 0 ELSE disconnectCalls[n] + Sum(n - 1)
  IN Sum(MaxClients)

\* n copies of element e as a bag
Copies(e, n) == IF n = 0 THEN EmptyBag ELSE [x \in {e} |-> n]

\* -------------------------------------------------------------------- Init
InitClients ==
  /\ prisma = NULL
  /\ constructed = 0
  /\ logConfig = [c \in Clients |-> <<>>]
  /\ poolOpen = {}
  /\ disconnectCalls = [c \in Clients |-> 0]
  /\ prismaHooks = [e \in ProcessEvents |-> 0]
  /\ prismaPending = EmptyBag
  /\ isConnected = FALSE
  /\ connState = "closed"
  /\ connectCalls = 0
  /\ closeCalls = 0
  /\ connListeners = [e \in ConnectionEvents |-> 0]
  /\ mongoHooks = [e \in MongoSignals |-> 0]
  /\ mongoPending = EmptyBag
  /\ env = [DATABASE_URL |-> "unset", MONGODB_URI |-> "unset", NODE_ENV |-> "unset"]
  /\ reachable = FALSE
  /\ signals = 0
  /\ lastP = Observation("none", "none", NULL, "none")
  /\ lastM = MongoObservation("none", "none", "none", "none")
  /\ returnLog = <<>>
  /\ handed = NULL
  /\ tornDown = NULL
  /\ reconnect = "none"
  /\ exited = FALSE
  /\ hostHandles = FALSE

\* The clients at module load, the process starting, the stores empty.
InitDocuments ==
  /\ now = 0
  /\ indexes = [c \in Collections |-> {}]
  /\ docs = [c \in Collections |-> {}]
  /\ lastTtl = [op |-> "none", removed |-> 0]

Init ==
  /\ InitClients
  /\ db = EmptyDb
  /\ lastSql = Statement("none", "none", "none", {}, 0)
  /\ InitDocuments

\* The relational store right after the migration, or populated.
InitSql ==
  /\ InitClients
  /\ db \in {EmptyDb, Content, Account}
  /\ lastSql = Statement("none", "none", "none", {}, 0)
  /\ InitDocuments

\* =================================================== src/prisma/client.ts
\* Variant of NoCachedClient: the guard never passes and nothing is constructed.
NoCachedClientNever == FALSE

\* Variant of NoCachedClient: the guard is lost and every call constructs.
NoCachedClientAlways == TRUE

\* client.ts:7  the lazy-initialisation guard `!prisma`
NoCachedClient == prisma = NULL

\* client.ts:15 and :31  the teardown guard `if (prisma)`
HasCachedClient == prisma # NULL

\* client.ts:6-28  getPrismaClient(): synchronous, so a call runs to its
\* return before any other caller starts.  The constructor is handed only
\* the `log` option; process.env.DATABASE_URL is not read here.
getPrismaClient ==
  /\ Len(returnLog) < MaxGets
  /\ IF NoCachedClient
     THEN /\ constructed < MaxClients
          /\ constructed' = constructed + 1
          /\ prisma' = constructed + 1
          /\ logConfig' = [logConfig EXCEPT ![constructed + 1] = LogLevels(env.NODE_ENV)]
          /\ poolOpen' = poolOpen \cup {constructed + 1}
          /\ prismaHooks' = [e \in ProcessEvents |-> prismaHooks[e] + 1]
     ELSE UNCHANGED <<prisma, constructed, logConfig, poolOpen, prismaHooks>>
  /\ lastP' = Observation("getPrismaClient", "returned", prisma', "none")
  /\ returnLog' = Append(returnLog, prisma')
  /\ handed' = prisma'
  /\ tornDown' = NULL
  /\ UNCHANGED <<disconnectCalls, prismaPending, mongoVars, envVars, signals, mongoObs>>

\* client.ts:30-32  disconnectPrisma() up to its await: with a cached client
\* it invokes $disconnect on it and suspends, otherwise it resolves at once.
disconnectPrisma ==
  /\ IF HasCachedClient
     THEN /\ TotalDisconnectCalls < MaxTeardowns
          /\ disconnectCalls' = [disconnectCalls EXCEPT ![prisma] = @ + 1]
          /\ prismaPending' = prismaPending (+)
                 SetToBag({[kind |-> "disconnectPrisma", client |-> prisma]})
          /\ lastP' = Observation("disconnectPrisma", "awaiting", prisma, "none")
     ELSE /\ UNCHANGED <<disconnectCalls, prismaPending>>
          /\ lastP' = Observation("disconnectPrisma", "returned", NULL, "none")
  /\ UNCHANGED <<prisma, constructed, logConfig, poolOpen, prismaHooks,
                 returnLog, handed, tornDown, mongoVars, envVars, signals, mongoObs>>

\* Variant of HandleAfterDisconnect: the cache is not cleared.
HandleAfterDisconnectKept == prisma

\* client.ts:17 and :33  the statement after the await: `prisma = null`
HandleAfterDisconnect == NULL

\* client.ts:16-17 and :32-33  an awaited $disconnect() fulfils (the driver
\* has closed the pool of the client it was invoked on) and the suspended
\* body resumes.
disconnectSettled(p) ==
  /\ BagIn(p, prismaPending)
  /\ prismaPending' = prismaPending (-) SetToBag({p})
  /\ poolOpen' = poolOpen \ {p.client}
  /\ prisma' = HandleAfterDisconnect
  /\ lastP' = Observation(p.kind, "resolved", p.client, "none")
  /\ handed' = NULL
  /\ tornDown' = IF p.kind = "disconnectPrisma" THEN p.client ELSE tornDown
  /\ UNCHANGED <<constructed, logConfig, disconnectCalls, prismaHooks, returnLog,
                 mongoVars, envVars, signals, mongoObs>>

\* Variant of cleanupPrisma without the `if (prisma)` guard: with no cached
\* client `prisma.$disconnect()` dereferences null inside the async body,
\* whose promise rejects with nobody to handle it.
cleanupPrismaUnguarded(n) ==
  IF n > 0 /\ HasCachedClient
  THEN /\ TotalDisconnectCalls + n <= MaxTeardowns
       /\ disconnectCalls' = [disconnectCalls EXCEPT ![prisma] = @ + n]
       /\ prismaPending' = prismaPending (+) Copies([kind |-> "cleanup", client |-> prisma], n)
       /\ lastP' = Observation("cleanup", "awaiting", prisma, "none")
  ELSE /\ UNCHANGED <<disconnectCalls, prismaPending>>
       /\ lastP' = IF n > 0 THEN Observation("cleanup", "rejected", NULL, "TypeError") ELSE lastP

\* client.ts:13-20  n registered `cleanup` closures run one after another on
\* a process event.  Each starts its async body, which runs to the await:
\* the guard reads the module variable, so all n see the same handle.
cleanupPrisma(n) ==
  IF n > 0 /\ HasCachedClient
  THEN /\ TotalDisconnectCalls + n <= MaxTeardowns
       /\ disconnectCalls' = [disconnectCalls EXCEPT ![prisma] = @ + n]
       /\ prismaPending' = prismaPending (+) Copies([kind |-> "cleanup", client |-> prisma], n)
       /\ lastP' = Observation("cleanup", "awaiting", prisma, "none")
  ELSE /\ UNCHANGED <<disconnectCalls, prismaPending>>
       /\ lastP' = IF n > 0 THEN Observation("cleanup", "returned", NULL, "none") ELSE lastP

\* ================================================== src/mongodb/client.ts
\* Variant of AlreadyConnected: the early return is lost.
AlreadyConnectedNever == FALSE

\* client.ts:6  the early return `if (isConnected)`
AlreadyConnected == isConnected

\* Variant of MissingUri: only an undefined variable is caught, '' passes.
MissingUriUndefinedOnly == env.MONGODB_URI = "unset"

\* client.ts:11  the configuration guard `!mongoUri`
MissingUri == ~Truthy(env.MONGODB_URI)

\* Variant of ShouldClose: close is invoked whatever the flag says.
ShouldCloseAlways == TRUE

\* client.ts:38 and :54  the close guard `if (isConnected)`
ShouldClose == isConnected

ConnectCall == [kind |-> "connectMongoDB"]
PendingConnects == CopiesIn(ConnectCall, mongoPending)
WithoutConnects(bag) == bag (-) Copies(ConnectCall, CopiesIn(ConnectCall, bag))

\* client.ts:5-21  connectMongoDB() up to its await.
connectMongoDB ==
  /\ IF AlreadyConnected
     THEN /\ lastM' = MongoObservation("connectMongoDB", "returned", "none", "none")
          /\ reconnect' = "none"
          /\ UNCHANGED <<connectCalls, mongoPending>>
     ELSE IF MissingUri
     THEN /\ lastM' = MongoObservation("connectMongoDB", "rejected", "none", MissingUriMessage)
          /\ reconnect' = "none"
          /\ UNCHANGED <<connectCalls, mongoPending>>
     ELSE /\ connectCalls < MaxConnects
          /\ connectCalls' = connectCalls + 1
          /\ mongoPending' = mongoPending (+) SetToBag({ConnectCall})
          /\ lastM' = MongoObservation("connectMongoDB", "awaiting", "none", "none")
          /\ reconnect' = IF reconnect = "closed" THEN "connecting" ELSE "none"
  /\ UNCHANGED <<isConnected, connState, closeCalls, connListeners, mongoHooks,
                 prismaVars, envVars, signals, prismaObs>>

\* client.ts:23-46  the awaited mongoose.connect fulfils and the body runs
\* on: the flag is set, two connection listeners and two signal listeners
\* are registered.  mongoose.connect calls made while a connection attempt
\* is in progress wait for that attempt, so the n suspended calls resume one
\* after another in the same turn of the event loop.
connectFulfilled ==
  /\ PendingConnects > 0
  /\ reachable \/ connState = "open"
  /\ mongoPending' = WithoutConnects(mongoPending)
  /\ connState' = "open"
  /\ isConnected' = TRUE
  /\ connListeners' = [e \in ConnectionEvents |-> connListeners[e] + PendingConnects]
  /\ mongoHooks' = [e \in MongoSignals |-> mongoHooks[e] + PendingConnects]
  /\ lastM' = MongoObservation("connectMongoDB", "resolved", "none", "none")
  /\ reconnect' = IF reconnect = "connecting" THEN "connected" ELSE reconnect
  /\ UNCHANGED <<connectCalls, closeCalls, prismaVars, envVars, signals, prismaObs>>

\* Variant of Rethrown: the caught error is replaced by a new one.
RethrownWrapped(error) == "Failed to connect to MongoDB"

\* client.ts:49  `throw error`: the caught error is rethrown as it is
Rethrown(error) == error

\* client.ts:47-50  the awaited mongoose.connect rejects: the error is logged
\* and rethrown; nothing after the await in the try block has run.
connectRejected(error) ==
  /\ PendingConnects > 0
  /\ ~reachable /\ connState # "open"
  /\ mongoPending' = WithoutConnects(mongoPending)
  /\ lastM' = MongoObservation("connectMongoDB", "rejected", error, Rethrown(error))
  /\ reconnect' = IF reconnect = "connecting" THEN "none" ELSE reconnect
  /\ UNCHANGED <<isConnected, connState, connectCalls, closeCalls, connListeners,
                 mongoHooks, prismaVars, envVars, signals, prismaObs>>

\* client.ts:53-55  disconnectMongoDB() up to its await.
disconnectMongoDB ==
  /\ IF ShouldClose
     THEN /\ closeCalls < MaxCloses
          /\ closeCalls' = closeCalls + 1
          /\ mongoPending' = mongoPending (+) SetToBag({[kind |-> "disconnectMongoDB"]})
          /\ lastM' = MongoObservation("disconnectMongoDB", "awaiting", "none", "none")
     ELSE /\ UNCHANGED <<closeCalls, mongoPending>>
          /\ lastM' = MongoObservation("disconnectMongoDB", "returned", "none", "none")
  /\ UNCHANGED <<isConnected, connState, connectCalls, connListeners, mongoHooks,
                 reconnect, prismaVars, envVars, signals, prismaObs>>

\* client.ts:39-40 and :55-56  an awaited mongoose.connection.close()
\* fulfils: the driver has closed the connection (its 'disconnected'
\* listeners ran and cleared the flag), then the suspended body resumes with
\* `isConnected = false`.
closeSettled(p) ==
  /\ p.kind \in {"disconnectMongoDB", "cleanup"}
  /\ BagIn(p, mongoPending)
  /\ mongoPending' = mongoPending (-) SetToBag({p})
  /\ connState' = "closed"
  /\ isConnected' = FALSE
  /\ lastM' = MongoObservation(p.kind, "resolved", "none", "none")
  /\ reconnect' = IF p.kind = "disconnectMongoDB" /\ mongoPending' = EmptyBag
                  THEN "closed" ELSE reconnect
  /\ UNCHANGED <<connectCalls, closeCalls, connListeners, mongoHooks,
                 prismaVars, envVars, signals, prismaObs>>

\* client.ts:36-43  n registered `cleanup` closures run one after another on
\* a signal; each starts its async body, which runs to the await.
cleanupMongo(n) ==
  IF n > 0 /\ ShouldClose
  THEN /\ closeCalls + n <= MaxCloses
       /\ closeCalls' = closeCalls + n
       /\ mongoPending' = mongoPending (+) Copies([kind |-> "cleanup"], n)
       /\ lastM' = MongoObservation("cleanup", "awaiting", "none", "none")
  ELSE /\ UNCHANGED <<closeCalls, mongoPending>>
       /\ lastM' = IF n > 0 THEN MongoObservation("cleanup", "returned", "none", "none")
                            ELSE lastM

\* Variant of isConnectedOnDisconnected: the listener only logs.
isConnectedOnDisconnectedKept == isConnected

\* client.ts:32  the 'disconnected' listener's assignment `isConnected = false`
isConnectedOnDisconnected == FALSE

\* client.ts:30-33  the driver loses the connection and emits 'disconnected':
\* every registered listener clears the flag.
driverDisconnected ==
  /\ connState = "open"
  /\ connState' = "dropped"
  /\ isConnected' = IF connListeners["disconnected"] > 0
                    THEN isConnectedOnDisconnected ELSE isConnected
  /\ lastM' = MongoObservation("driver", "disconnected", "none", "none")
  /\ UNCHANGED <<connectCalls, closeCalls, connListeners, mongoHooks, mongoPending,
                 reconnect, prismaVars, envVars, signals, prismaObs>>

\* The driver re-establishes a dropped connection on its own; the library
\* registers no listener for it (client.ts:26-33 listens to 'error' and
\* 'disconnected' only).
driverReconnected ==
  /\ connState = "dropped"
  /\ reachable
  /\ connState' = "open"
  /\ lastM' = MongoObservation("driver", "reconnected", "none", "none")
  /\ UNCHANGED <<isConnected, connectCalls, closeCalls, connListeners, mongoHooks,
                 mongoPending, reconnect, prismaVars, envVars, signals, prismaObs>>

\* ========================================================= the process
\* prisma/client.ts:22-24 and mongodb/client.ts:45-46  Node delivers a
\* process event to every listener registered on it, in registration order.
processEvent(e) ==
  /\ signals < MaxSignals
  /\ signals' = signals + 1
  /\ cleanupPrisma(prismaHooks[e])
  /\ cleanupMongo(IF e \in MongoSignals THEN mongoHooks[e] ELSE 0)
  /\ UNCHANGED <<prisma, constructed, logConfig, poolOpen, prismaHooks,
                 isConnected, connState, connectCalls, connListeners, mongoHooks,
                 envVars, returnLog, handed, tornDown, reconnect>>

\* The host sets or clears process.env.DATABASE_URL.
setDatabaseUrl ==
  /\ \E v \in DatabaseUrls : v # env.DATABASE_URL /\ env' = [env EXCEPT !.DATABASE_URL = v]
  /\ UNCHANGED <<prismaVars, mongoVars, reachable, signals, prismaObs, mongoObs>>

\* The host changes process.env.NODE_ENV.
setNodeEnv ==
  /\ \E v \in NodeEnvs : v # env.NODE_ENV /\ env' = [env EXCEPT !.NODE_ENV = v]
  /\ UNCHANGED <<prismaVars, mongoVars, reachable, signals, prismaObs, mongoObs>>

\* The host sets, empties or clears process.env.MONGODB_URI.
setMongoUri ==
  /\ \E v \in EnvValues : v # env.MONGODB_URI /\ env' = [env EXCEPT !.MONGODB_URI = v]
  /\ UNCHANGED <<prismaVars, mongoVars, reachable, signals, prismaObs, mongoObs>>

\* The document store becomes reachable or unreachable.
setReachable ==
  /\ reachable' = ~reachable
  /\ UNCHANGED <<prismaVars, mongoVars, env, signals, prismaObs, mongoObs>>

\* mongodb/client.ts:45-46  a signal nobody listens to ends the process
\* (Node's default action); process.on(signal, cleanup) replaces that default,
\* so once a hook is registered the signal only runs the listeners.
signalDefault(e) ==
  /\ e \in MongoSignals
  /\ prismaHooks[e] = 0 /\ mongoHooks[e] = 0
  /\ signals < MaxSignals
  /\ signals' = signals + 1
  /\ exited' = TRUE
  /\ UNCHANGED <<prismaVars, mongoVars, envVars, prismaObs, mongoObs, hostHandles>>

\* The host opens or closes a handle of its own (a listening server, a
\* timer): while it has one, the event loop stays alive.
hostHandle ==
  /\ hostHandles' = ~hostHandles
  /\ UNCHANGED <<prismaVars, mongoVars, envVars, signals, prismaObs, mongoObs, exited>>

\* mongodb/client.ts:39-41  what the hook does to the process after the
\* awaited close: the async body ends with `isConnected = false`.
ExitAfterClose(p) == FALSE

\* mongodb/client.ts:39-41  an awaited close settles in a process whose
\* termination is observed.
closeSettledInProcess(p) ==
  /\ closeSettled(p)
  /\ exited' = ExitAfterClose(p)
  /\ UNCHANGED hostHandles

\* Node ends the process by itself once nothing keeps the event loop alive:
\* no connection to either store, no pending driver promise and no handle
\* of the host.
processExit ==
  /\ ~hostHandles
  /\ connState = "closed" /\ mongoPending = EmptyBag
  /\ poolOpen = {} /\ prismaPending = EmptyBag
  /\ exited' = TRUE
  /\ UNCHANGED <<prismaVars, mongoVars, envVars, signals, prismaObs, mongoObs, hostHandles>>

\* ==================================================== the relational store
\* What PostgreSQL does with the constraints the migration declares.
RECURSIVE CountIn(_, _)
CountIn(rows, ts) ==
  IF ts = {} THEN 0
  ELSE LET t == CHOOSE x \in ts : TRUE
       IN Cardinality(rows[t]) + CountIn(rows, ts \ {t})

\* the number of rows in a table -> rows function
Count(rows) == CountIn(rows, Tables)

RowCount == Count(db)

SameKey(r1, r2, key) == \A c \in key : r1[c] = r2[c]

\* the unique keys of table t on which the row collides with a stored row
ViolatedKeys(t, row) ==
  { key \in UniqueKeys(t) : \E r \in db[t] : SameKey(r, row, key) }

\* Variant of ForeignKeyViolation: references are not checked.
ForeignKeyViolationNever(t, row) == FALSE

\* a foreign-key column of the row names no row of the referenced table
\* (checked at the end of the statement: a row may reference itself)
ForeignKeyViolation(t, row) ==
  \E fk \in ForeignKeys :
     /\ fk.table = t
     /\ row[fk.column] # NULL
     /\ ~\E r \in db[fk.references] \cup (IF fk.references = t THEN {row} ELSE {}) :
           r.id = row[fk.column]

\* INSERT INTO t VALUES (row): rejected with the name of a unique key the
\* row collides on, or with a foreign-key violation, else stored.
insert(t, row) ==
  /\ IF ViolatedKeys(t, row) # {}
     THEN /\ \E key \in ViolatedKeys(t, row) :
               lastSql' = Statement("insert", t, "unique_violation", key, 0)
          /\ UNCHANGED db
     ELSE IF ForeignKeyViolation(t, row)
     THEN /\ lastSql' = Statement("insert", t, "foreign_key_violation", {}, 0)
          /\ UNCHANGED db
     ELSE /\ RowCount < MaxRows
          /\ db' = [db EXCEPT ![t] = @ \cup {row}]
          /\ lastSql' = Statement("insert", t, "ok", {}, 1)
  /\ UNCHANGED <<clientVars, ttlVars>>

\* Variant of Referencing: a row with a SET NULL key is deleted as well.
ReferencingAnyRule(dead, t) ==
  { r \in db[t] : \E fk \in ForeignKeys :
       /\ fk.table = t
       /\ \E x \in dead[fk.references] : x.id = r[fk.column] }

\* ON DELETE CASCADE: the rows of table t that reference a row being deleted
\* through a foreign key declared with that rule
Referencing(dead, t) ==
  { r \in db[t] : \E fk \in ForeignKeys :
       /\ fk.table = t
       /\ fk.onDelete = "CASCADE"
       /\ \E x \in dead[fk.references] : x.id = r[fk.column] }

\* the rows a DELETE removes: the named rows and, transitively, the rows
\* that reference them ON DELETE CASCADE
RECURSIVE Cascade(_)
Cascade(dead) ==
  LET more == [t \in Tables |-> dead[t] \cup Referencing(dead, t)]
  IN IF more = dead THEN dead ELSE Cascade(more)

\* ON DELETE SET NULL: a surviving row whose key references a deleted row
\* keeps its place with that column set to NULL
SetNull(dead, t, r) ==
  [c \in DOMAIN r |->
     IF \E fk \in ForeignKeys :
           /\ fk.table = t /\ fk.column = c /\ fk.onDelete = "SET NULL"
           /\ \E x \in dead[fk.references] : x.id = r[c]
     THEN NULL ELSE r[c]]

AfterDelete(dead) ==
  [t \in Tables |-> { SetNull(dead, t, r) : r \in db[t] \ dead[t] }]

Only(t, row) == [u \in Tables |-> IF u = t THEN {row} ELSE {}]

\* DELETE FROM t WHERE <primary key of row>
delete(t, row) ==
  /\ row \in db[t]
  /\ LET dead == Cascade(Only(t, row))
     IN /\ db' = AfterDelete(dead)
        /\ lastSql' = Statement("delete", t, "ok", {}, Count(dead))
  /\ UNCHANGED <<clientVars, ttlVars>>

\* UPDATE categories SET "parentId" = parent WHERE id = <id of row>: the
\* foreign key is the only constraint on the column, so the statement is
\* rejected when parent names no category and stored otherwise.
updateParent(row, parent) ==
  /\ row \in db["categories"]
  /\ parent # row.parentId
  /\ IF ForeignKeyViolation("categories", [row EXCEPT !.parentId = parent])
     THEN /\ lastSql' = Statement("update", "categories", "foreign_key_violation", {}, 0)
          /\ UNCHANGED db
     ELSE /\ db' = [db EXCEPT !["categories"] =
                      (@ \ {row}) \cup {[row EXCEPT !.parentId = parent]}]
          /\ lastSql' = Statement("update", "categories", "ok", {}, 1)
  /\ UNCHANGED <<clientVars, ttlVars>>

\* ===================================================== the document store
\* What Mongoose and MongoDB do with the indexes the schemas declare.
DocCount == Cardinality(docs["notifications"]) + Cardinality(docs["pageViews"])
              + Cardinality(docs["auditLogs"])

\* Variant of Conflicts: an index is always built, whatever exists already.
ConflictsNever(built, index) == FALSE

\* createIndex: an index with the same key pattern (hence the same name)
\* but other options exists already, and the command fails
Conflicts(built, index) ==
  \E b \in built : b.key = index.key /\ b.expireAfterSeconds # index.expireAfterSeconds

\* Model.ensureIndexes: createIndex for each declared index in turn; a
\* failed createIndex leaves the collection's indexes as they are.
RECURSIVE Build(_, _)
Build(declared, built) ==
  IF declared = <<>> THEN built
  ELSE Build(Tail(declared),
             IF Conflicts(built, Head(declared)) THEN built
             ELSE built \cup {Head(declared)})

\* Mongoose builds the declared indexes of every model (autoIndex).
ensureIndexes ==
  /\ \A c \in Collections : indexes[c] = {}
  /\ indexes' = [c \in Collections |-> Build(SchemaOf(c), {})]
  /\ lastTtl' = [op |-> "ensureIndexes", removed |-> 0]
  /\ UNCHANGED <<now, docs, clientVars, sqlVars>>

\* notification.schema.ts: a service writes a Notification, with or without
\* expiresAt (the field has no default).
insertNotification ==
  /\ DocCount < MaxDocs
  /\ \E e \in Dates \cup {Absent} :
       docs' = [docs EXCEPT !["notifications"] = @ \cup {[expiresAt |-> e]}]
  /\ docs' # docs
  /\ lastTtl' = [op |-> "insert", removed |-> 0]
  /\ UNCHANGED <<now, indexes, clientVars, sqlVars>>

\* page-view.schema.ts: a service writes a PageView; timestamp is the date
\* the writer supplies, by default Date.now.
insertPageView ==
  /\ DocCount < MaxDocs
  /\ \E ts \in Dates \cup {now} :
       docs' = [docs EXCEPT !["pageViews"] = @ \cup {[timestamp |-> ts]}]
  /\ docs' # docs
  /\ lastTtl' = [op |-> "insert", removed |-> 0]
  /\ UNCHANGED <<now, indexes, clientVars, sqlVars>>

\* audit-log.schema.ts: a service writes an AuditLog; timestamp is the date
\* the writer supplies, by default Date.now.  insertedAt is not a field:
\* it records when the document was created.
insertAuditLog ==
  /\ DocCount < MaxDocs
  /\ \E ts \in Dates \cup {now} :
       docs' = [docs EXCEPT !["auditLogs"] = @ \cup {[timestamp |-> ts, insertedAt |-> now]}]
  /\ docs' # docs
  /\ lastTtl' = [op |-> "insert", removed |-> 0]
  /\ UNCHANGED <<now, indexes, clientVars, sqlVars>>

\* time passes
tick ==
  /\ \E t \in Instants :
       /\ t > now
       /\ \A u \in Instants : u > now => t <= u
       /\ now' = t
  /\ lastTtl' = [op |-> "tick", removed |-> 0]
  /\ UNCHANGED <<indexes, docs, clientVars, sqlVars>>

\* the TTL indexes built on collection c (single-field, with expireAfterSeconds)
TtlIndexes(c) ==
  { i \in indexes[c] : i.expireAfterSeconds # NoTtl /\ i.key = <<TtlField(c), 1>> }

\* Variant of Expired: a document without the date field expires as well.
ExpiredWithoutField(c, d) ==
  \E i \in TtlIndexes(c) : d[TtlField(c)] + i.expireAfterSeconds <= now

\* a document of collection c is expired: it has the indexed date field
\* and that date plus expireAfterSeconds has been reached
Expired(c, d) ==
  \E i \in TtlIndexes(c) :
     d[TtlField(c)] # Absent /\ d[TtlField(c)] + i.expireAfterSeconds <= now

\* MongoDB's TTL monitor runs a pass: it deletes the expired documents of
\* every collection that has a TTL index.
ttlSweep ==
  /\ \E c \in Collections : \E d \in docs[c] : Expired(c, d)
  /\ docs' = [c \in Collections |-> { d \in docs[c] : ~Expired(c, d) }]
  /\ lastTtl' = [op |-> "sweep", removed |-> DocCount - DocCount']
  /\ UNCHANGED <<now, indexes, clientVars, sqlVars>>

\* ------------------------------------------------------- specification
\* The two client modules share no variable (prisma/client.ts:4 and
\* mongodb/client.ts:3 are module-private) and a process event reaches the
\* listeners of each independently, so every behaviour of a process that
\* uses both projects onto a behaviour of each module alone.  Next explores
\* the behaviours of the Prisma module and those of the Mongo module: a
\* module's operations are taken while the other module is untouched.
PrismaUntouched ==
  /\ constructed = 0
  /\ lastP.op = "none"
  /\ env.DATABASE_URL = "unset" /\ env.NODE_ENV = "unset"

MongoUntouched ==
  /\ connectCalls = 0
  /\ lastM.op = "none"
  /\ env.MONGODB_URI = "unset" /\ ~reachable

Next ==
  \/ MongoUntouched /\ getPrismaClient /\ UNCHANGED <<processVars, storeVars>>
  \/ MongoUntouched /\ disconnectPrisma /\ UNCHANGED <<processVars, storeVars>>
  \/ MongoUntouched /\ \E p \in BagToSet(prismaPending) : disconnectSettled(p) /\ UNCHANGED <<processVars, storeVars>>
  \/ MongoUntouched /\ setDatabaseUrl /\ UNCHANGED <<processVars, storeVars>>
  \/ MongoUntouched /\ setNodeEnv /\ UNCHANGED <<processVars, storeVars>>
  \/ PrismaUntouched /\ connectMongoDB /\ UNCHANGED <<processVars, storeVars>>
  \/ PrismaUntouched /\ connectFulfilled /\ UNCHANGED <<processVars, storeVars>>
  \/ PrismaUntouched /\ \E error \in DriverErrors : connectRejected(error) /\ UNCHANGED <<processVars, storeVars>>
  \/ PrismaUntouched /\ disconnectMongoDB /\ UNCHANGED <<processVars, storeVars>>
  \/ PrismaUntouched /\ \E p \in BagToSet(mongoPending) : closeSettled(p) /\ UNCHANGED <<processVars, storeVars>>
  \/ PrismaUntouched /\ driverDisconnected /\ UNCHANGED <<processVars, storeVars>>
  \/ PrismaUntouched /\ driverReconnected /\ UNCHANGED <<processVars, storeVars>>
  \/ PrismaUntouched /\ setMongoUri /\ UNCHANGED <<processVars, storeVars>>
  \/ PrismaUntouched /\ setReachable /\ UNCHANGED <<processVars, storeVars>>
  \/ (MongoUntouched \/ PrismaUntouched) /\ \E e \in ProcessEvents : processEvent(e) /\ UNCHANGED <<processVars, storeVars>>

Spec == Init /\ [][Next]_vars

\* The process that uses the document-store client, with its termination:
\* the operations of mongodb/client.ts while the process runs, the signals,
\* the host's own handles and the end of the process.  A process event with
\* a listener runs the listeners; without one it takes Node's default.
Running == ~exited /\ PrismaUntouched

Hooked(e) == e \in MongoSignals /\ mongoHooks[e] > 0

NextShutdown ==
  \/ Running /\ connectMongoDB /\ UNCHANGED <<processVars, storeVars>>
  \/ Running /\ connectFulfilled /\ UNCHANGED <<processVars, storeVars>>
  \/ Running /\ \E error \in DriverErrors : connectRejected(error) /\ UNCHANGED <<processVars, storeVars>>
  \/ Running /\ disconnectMongoDB /\ UNCHANGED <<processVars, storeVars>>
  \/ Running /\ \E p \in BagToSet(mongoPending) : closeSettledInProcess(p) /\ UNCHANGED storeVars
  \/ Running /\ driverDisconnected /\ UNCHANGED <<processVars, storeVars>>
  \/ Running /\ driverReconnected /\ UNCHANGED <<processVars, storeVars>>
  \/ Running /\ setMongoUri /\ UNCHANGED <<processVars, storeVars>>
  \/ Running /\ setReachable /\ UNCHANGED <<processVars, storeVars>>
  \/ Running /\ \E e \in MongoSignals : Hooked(e) /\ processEvent(e) /\ UNCHANGED <<processVars, storeVars>>
  \/ Running /\ \E e \in MongoSignals : signalDefault(e) /\ UNCHANGED storeVars
  \/ Running /\ hostHandle /\ UNCHANGED storeVars
  \/ Running /\ processExit /\ UNCHANGED storeVars

\* The event loop runs every continuation whose promise has settled, and
\* the driver settles a close it was asked for; Node ends a process whose
\* event loop has nothing left to wait for.
SpecShutdown ==
  /\ Init
  /\ [][NextShutdown]_vars
  /\ WF_vars(Running /\ \E p \in BagToSet(mongoPending) : closeSettledInProcess(p) /\ UNCHANGED storeVars)
  /\ WF_vars(Running /\ processExit /\ UNCHANGED storeVars)

\* The relational store under the statements of its clients.
NextSql ==
  \/ \E t \in Tables : \E row \in RowsOf(t) : insert(t, row)
  \/ \E t \in Tables : \E row \in db[t] : delete(t, row)
  \/ \E row \in db["categories"] : \E parent \in CategoryIds \cup {NULL} : updateParent(row, parent)

SpecSql == InitSql /\ [][NextSql]_vars

\* The document store under its writers, the clock and the TTL monitor.
\* The monitor runs a pass every minute, and Mongoose builds the indexes
\* when the models are compiled and the connection opens.
NextTtl ==
  \/ ensureIndexes
  \/ insertNotification
  \/ insertPageView
  \/ insertAuditLog
  \/ tick
  \/ ttlSweep

SpecTtl ==
  /\ Init
  /\ [][NextTtl]_vars
  /\ WF_vars(ensureIndexes)
  /\ WF_vars(ttlSweep)

\* ============================================================ properties
AllSame(log) == \A i, j \in DOMAIN log : log[i] = log[j]

\* C1 (as stated): in every sequence of library operations, any two calls
\* to getPrismaClient return the same PrismaClient instance.
C1_AnyTwoCallsSameInstance == AllSame(returnLog)

\* C1 (amended): a getPrismaClient call returns the same instance as the
\* getPrismaClient call before it, provided no teardown (disconnectPrisma or
\* shutdown hook) has completed between the two calls.
C1_SameInstanceUntilTeardown ==
  [][getPrismaClient /\ handed # NULL
       => lastP'.client = handed /\ constructed' = constructed]_vars

C1_Witness ==
  /\ Len(returnLog) >= 3
  /\ returnLog[1] = returnLog[2]
  /\ returnLog[3] # returnLog[2]
  /\ handed = returnLog[3]

\* C2 (as stated): once a connectMongoDB call has resolved successfully,
\* every further connectMongoDB call returns without invoking
\* mongoose.connect.  (A call has resolved successfully exactly when its
\* signal hook is registered: client.ts:45 runs once per fulfilled connect
\* and nothing removes a hook.)
C2_NeverConnectsAgain ==
  [][connectMongoDB /\ mongoHooks["SIGINT"] > 0 => connectCalls' = connectCalls]_vars

\* C2 (amended): while isConnected is still true after a successful connect
\* (no disconnectMongoDB, shutdown hook or driver 'disconnected' event has
\* cleared it), a connectMongoDB call resolves without invoking
\* mongoose.connect and without changing the module's state.
C2_NoConnectWhileConnected ==
  [][connectMongoDB /\ isConnected
       => /\ connectCalls' = connectCalls
          /\ lastM'.phase = "returned"
          /\ UNCHANGED mongoVars]_vars

C2_Witness ==
  /\ isConnected
  /\ connectCalls = 1
  /\ lastM = MongoObservation("connectMongoDB", "returned", "none", "none")
  /\ mongoHooks["SIGINT"] = 1
  /\ reconnect = "none"

\* C3: after disconnectPrisma() has resolved, the next getPrismaClient()
\* constructs a fresh client, distinct from the torn-down one, caches and
\* returns it; after disconnectMongoDB() has resolved (the calls are made in
\* sequence: nothing else is in flight), the next connectMongoDB() with
\* MONGODB_URI set invokes mongoose.connect, and when the store is reachable
\* that connect leaves the flag isConnected set.
C3_ReconnectAfterDisconnect ==
  /\ [][getPrismaClient /\ tornDown # NULL
          => /\ constructed' = constructed + 1
             /\ lastP'.client = constructed'
             /\ lastP'.client # tornDown
             /\ lastP'.client \in poolOpen' \ poolOpen
             /\ prisma' = lastP'.client]_vars
  /\ [][connectMongoDB /\ reconnect = "closed" /\ Truthy(env.MONGODB_URI)
          => /\ connectCalls' = connectCalls + 1
             /\ BagIn(ConnectCall, mongoPending')]_vars
  /\ [][connectFulfilled /\ reconnect = "connecting"
          => isConnected' /\ connState' = "open"]_vars

C3_PrismaReacquired ==
  /\ Len(returnLog) >= 2
  /\ lastP.op = "getPrismaClient"
  /\ lastP.client = 2
  /\ 1 \notin poolOpen
  /\ prisma = 2

C3_MongoReconnected ==
  /\ reconnect = "connected"
  /\ isConnected
  /\ connectCalls = 2
  /\ closeCalls = 1

C3_Witness == C3_PrismaReacquired \/ C3_MongoReconnected

\* C4: a connectMongoDB call made while not connected with MONGODB_URI unset
\* or empty rejects with 'MONGODB_URI environment variable is not set',
\* does not invoke mongoose.connect, leaves isConnected false and registers
\* no connection listener and no signal hook.
C4_MissingUriRejects ==
  [][connectMongoDB /\ ~isConnected /\ env.MONGODB_URI \in {"unset", "empty"}
       => /\ lastM'.phase = "rejected"
          /\ lastM'.err = MissingUriMessage
          /\ connectCalls' = connectCalls
          /\ ~isConnected'
          /\ UNCHANGED <<connListeners, mongoHooks, mongoPending>>]_vars

C4_Witness ==
  /\ lastM.op = "connectMongoDB"
  /\ lastM.err = MissingUriMessage
  /\ env.MONGODB_URI = "empty"
  /\ connectCalls = 0

\* C5 (as stated): a getPrismaClient call made with no cached handle while
\* DATABASE_URL is absent throws, and no handle is cached afterwards.
C5_MissingDatabaseUrlThrows ==
  [][getPrismaClient /\ prisma = NULL /\ env.DATABASE_URL = "unset"
       => lastP'.phase = "threw" /\ prisma' = NULL]_vars

C7_DisconnectPrismaIdempotent ==
  /\ [][disconnectPrisma /\ prisma = NULL
          => /\ lastP' = Observation("disconnectPrisma", "returned", NULL, "none")
             /\ UNCHANGED prismaVars]_vars
  /\ [][disconnectPrisma /\ prisma # NULL
          => /\ disconnectCalls' = [disconnectCalls EXCEPT ![prisma] = @ + 1]
             /\ lastP'.phase = "awaiting"]_vars
  /\ [][disconnectPrisma /\ lastP.op = "disconnectPrisma" /\ lastP.phase = "resolved"
          => /\ disconnectCalls' = disconnectCalls
             /\ prisma' = NULL
             /\ lastP'.phase = "returned"]_vars

C7_Witness ==
  /\ lastP = Observation("disconnectPrisma", "returned", NULL, "none")
  /\ tornDown = 1
  /\ disconnectCalls[1] = 1
  /\ prisma = NULL
  /\ prismaPending = EmptyBag

\* C8: disconnectMongoDB called while not connected resolves without
\* invoking mongoose.connection.close and changes no state; called while
\* connected it invokes close once, and a second call made after the first
\* has resolved invokes no close and leaves isConnected false.
C8_DisconnectMongoIdempotent ==
  /\ [][disconnectMongoDB /\ ~isConnected
          => /\ lastM' = MongoObservation("disconnectMongoDB", "returned", "none", "none")
             /\ UNCHANGED mongoVars]_vars
  /\ [][disconnectMongoDB /\ isConnected
          => closeCalls' = closeCalls + 1 /\ lastM'.phase = "awaiting"]_vars
  /\ [][disconnectMongoDB /\ lastM.op = "disconnectMongoDB" /\ lastM.phase = "resolved"
          => /\ closeCalls' = closeCalls
             /\ ~isConnected'
             /\ lastM'.phase = "returned"]_vars

C8_Witness ==
  /\ lastM = MongoObservation("disconnectMongoDB", "returned", "none", "none")
  /\ reconnect = "closed"
  /\ closeCalls = 1
  /\ connectCalls = 1
  /\ ~isConnected
  /\ mongoPending = EmptyBag

\* C9: as long as no teardown has completed, however many getPrismaClient
\* calls were made, the PrismaClient constructor has run at most once and
\* every call received the same handle.
C9_ColdStartConstructsOnce ==
  poolOpen = 1..constructed => constructed <= 1 /\ AllSame(returnLog)

C9_Witness ==
  /\ poolOpen = 1..constructed
  /\ Len(returnLog) >= 3
  /\ constructed = 1

\* C10: a Prisma shutdown hook never throws and its async body never
\* rejects, however often the hooks are invoked and whether or not the pool
\* is already closed; invoked with no cached handle the hooks invoke no
\* $disconnect and change no state of the module.
C10_HooksNeverFail ==
  /\ [](lastP.op = "cleanup"
          => lastP.phase \in {"awaiting", "resolved", "returned"} /\ lastP.err = "none")
  /\ [][\A e \in ProcessEvents : processEvent(e) /\ prismaHooks[e] > 0 /\ prisma = NULL
          => UNCHANGED prismaVars /\ lastP' = Observation("cleanup", "returned", NULL, "none")]_vars

C10_Witness ==
  /\ lastP = Observation("cleanup", "returned", NULL, "none")
  /\ signals >= 2
  /\ constructed >= 1
  /\ poolOpen = {}
  /\ TotalDisconnectCalls >= 1

\* C11 (as stated): once connectMongoDB has succeeded (its listeners are
\* registered), whatever connectMongoDB and disconnectMongoDB calls and
\* driver disconnect events follow, exactly one library-installed shutdown
\* handler is registered on SIGINT.
C11_ExactlyOneSigintHook ==
  connListeners["disconnected"] > 0 => mongoHooks["SIGINT"] = 1

\* C12 (as stated): when SIGINT is delivered while the client is connected
\* (the hook has invoked close), the connection is eventually closed and
\* the process eventually terminates.
C12_SigintClosesThenTerminates ==
  /\ (lastM = MongoObservation("cleanup", "awaiting", "none", "none")) ~> (connState = "closed")
  /\ (lastM = MongoObservation("cleanup", "awaiting", "none", "none")) ~> exited

\* C13: after a successful connectMongoDB (its 'disconnected' listener is
\* registered) a 'disconnected' event of the driver leaves isConnected false
\* and the library invokes neither mongoose.connect nor close in that step;
\* the next library call, if it is connectMongoDB with MONGODB_URI still
\* set, invokes mongoose.connect.
C13_DisconnectedClearsFlag ==
  /\ [][driverDisconnected /\ connListeners["disconnected"] > 0
          => /\ ~isConnected'
             /\ connectCalls' = connectCalls
             /\ closeCalls' = closeCalls
             /\ mongoPending' = mongoPending]_vars
  /\ [][(connectMongoDB /\ lastM = MongoObservation("driver", "disconnected", "none", "none")
            /\ connListeners["disconnected"] > 0 /\ Truthy(env.MONGODB_URI))
          => /\ connectCalls' = connectCalls + 1
             /\ BagIn(ConnectCall, mongoPending')
             /\ lastM' = MongoObservation("connectMongoDB", "awaiting", "none", "none")]_vars

C13_Witness ==
  /\ lastM = MongoObservation("connectMongoDB", "awaiting", "none", "none")
  /\ connState = "dropped"
  /\ ~isConnected
  /\ connectCalls = 2
  /\ closeCalls = 0
  /\ connListeners["disconnected"] = 1
  /\ PendingConnects = 1

\* the tables whose rows belong to a post
PostTables == {"comments", "likes", "bookmarks", "post_categories", "post_tags"}

\* C14: deleting a post deletes every comment, like, bookmark,
\* post_categories and post_tags row whose postId is that post, and deletes
\* nothing else: every row of another post, every other post and every row
\* of the other tables is still there.
C14_PostDeleteCascades ==
  [][\A p \in db["posts"] : delete("posts", p)
       => /\ \A t \in PostTables : \A r \in db'[t] : r.postId # p.id
          /\ \A t \in PostTables : \A r \in db[t] :
                r.postId # p.id => \E r2 \in db'[t] : SameKey(r, r2, PrimaryKey(t))
          /\ db'["posts"] = db["posts"] \ {p}
          /\ \A t \in Tables \ (PostTables \cup {"posts"}) : db'[t] = db[t]]_vars

C14_Witness ==
  /\ lastSql = Statement("delete", "posts", "ok", {}, 6)
  /\ db["posts"] = {[id |-> 2, authorId |-> 1, slug |-> "second"]}
  /\ db["comments"] = {[id |-> 2, postId |-> 2, authorId |-> 1, parentId |-> NULL]}
  /\ \A t \in PostTables \ {"comments"} : db[t] = {}
  /\ db["categories"] # {} /\ db["tags"] # {}

\* C15: deleting a user deletes its profile and all of its sessions and
\* nothing else: the posts and comments it wrote, the other users with their
\* profiles and sessions, and every row of every other table are unchanged.
C15_UserDeleteCascades ==
  [][\A u \in db["users"] : delete("users", u)
       => /\ \A t \in {"profiles", "sessions"} :
                db'[t] = { r \in db[t] : r.userId # u.id }
          /\ db'["users"] = db["users"] \ {u}
          /\ \A t \in Tables \ {"users", "profiles", "sessions"} : db'[t] = db[t]]_vars

C15_Witness ==
  /\ lastSql = Statement("delete", "users", "ok", {}, 4)
  /\ db["users"] = {} /\ db["profiles"] = {} /\ db["sessions"] = {}
  /\ db["posts"] = {[id |-> 1, authorId |-> 1, slug |-> "first"]}
  /\ db["comments"] = {[id |-> 1, postId |-> 1, authorId |-> 1, parentId |-> NULL]}
  /\ db["media"] # {}

\* the unique constraints C16 names
NamedKeys(t) ==
  CASE t = "users"           -> {{"email"}, {"username"}}
    [] t = "posts"           -> {{"slug"}}
    [] t = "likes"           -> {{"userId", "postId"}}
    [] t = "bookmarks"       -> {{"userId", "postId"}}
    [] t = "post_categories" -> {{"postId", "categoryId"}}
    [] t = "post_tags"       -> {{"postId", "tagId"}}
    [] OTHER                 -> {}

\* C16: an insert whose row repeats a stored row's users.email,
\* users.username, posts.slug, (userId, postId) of likes or of bookmarks, or
\* (postId, categoryId) / (postId, tagId) of a junction table is rejected
\* as a unique violation and changes no table; and in every state reached
\* by inserts and deletes no two rows of a table share such a key.
C16_UniqueKeysReject ==
  /\ [](\A t \in Tables : \A key \in NamedKeys(t) : \A r1, r2 \in db[t] :
           SameKey(r1, r2, key) => r1 = r2)
  /\ [][lastSql'.stmt = "insert"
          => \A row \in RowsOf(lastSql'.table) :
                (/\ \E key \in NamedKeys(lastSql'.table) : \E r \in db[lastSql'.table] :
                       SameKey(r, row, key)
                 /\ insert(lastSql'.table, row))
                  => /\ db' = db
                     /\ lastSql'.outcome = "unique_violation" /\ lastSql'.rows = 0]_vars

C16_Witness ==
  /\ lastSql = Statement("insert", "likes", "unique_violation", {"userId", "postId"}, 0)
  /\ db["likes"] = {[id |-> 1, userId |-> 1, postId |-> 1]}
  /\ Cardinality(db["posts"]) = 2

\* C20 (as stated): when a comment is deleted, no row that was a reply to
\* it (parentId = that comment) is left in the table.
C20_CommentDeleteDeletesReplies ==
  [][\A c \in db["comments"] : delete("comments", c)
       => \A r \in db["comments"] :
             r.parentId = c.id => ~\E r2 \in db'["comments"] : r2.id = r.id]_vars

\* C17: a notification leaves the collection only when it has an expiresAt
\* and the clock has reached it (so one without expiresAt is never removed),
\* and a notification whose expiresAt is reached is eventually removed.
C17_NotificationTtl ==
  /\ [][\A d \in docs["notifications"] :
          d \notin docs'["notifications"] => d.expiresAt # Absent /\ d.expiresAt <= now]_vars
  /\ \A e \in Dates :
        ([expiresAt |-> e] \in docs["notifications"] /\ e <= now)
          ~> ([expiresAt |-> e] \notin docs["notifications"])

C17_Witness ==
  /\ lastTtl = [op |-> "sweep", removed |-> 1]
  /\ now = 1
  /\ docs["notifications"] = {[expiresAt |-> Absent]}
  /\ TtlIndexes("notifications") = {Index(<<"expiresAt", 1>>, 0)}

\* C18 (as stated): a page view leaves the collection only when 7,776,000
\* seconds have passed since its timestamp, and a page view whose timestamp
\* is that old is eventually removed.
C18_PageViewTtl ==
  /\ [][\A d \in docs["pageViews"] :
          d \notin docs'["pageViews"] => d.timestamp + 7776000 <= now]_vars
  /\ \A ts \in Instants :
        ([timestamp |-> ts] \in docs["pageViews"] /\ ts + 7776000 <= now)
          ~> ([timestamp |-> ts] \notin docs["pageViews"])

\* C19 (as stated): the retention the schema declares for audit logs is
\* 730 x 86,400 seconds, and whatever a writer puts into a record, the
\* instant from which the record may expire (its timestamp plus that
\* retention) is two years after the record was created.
C19_AuditLogRetentionFixed ==
  /\ DeclaredTtl("auditLogs") = 730 * 86400
  /\ \A d \in docs["auditLogs"] :
        d.timestamp + DeclaredTtl("auditLogs") = d.insertedAt + 730 * 86400

\* C21: every getPrismaClient call returns a PrismaClient that has been
\* constructed, never the null handle, also when the call is made while a
\* teardown (disconnectPrisma or a shutdown hook) awaits $disconnect.
C21_AlwaysDefinedClient ==
  /\ \A i \in DOMAIN returnLog : returnLog[i] # NULL /\ returnLog[i] \in 1..constructed
  /\ lastP.op = "getPrismaClient" => lastP.phase = "returned" /\ lastP.client # NULL

C21_Witness ==
  /\ lastP = Observation("getPrismaClient", "returned", 1, "none")
  /\ prismaPending # EmptyBag
  /\ disconnectCalls[1] >= 1
  /\ returnLog[Len(returnLog)] = 1

\* C23: a client that getPrismaClient constructs gets the log levels query,
\* error, warn exactly when NODE_ENV is 'development' at that moment and
\* error alone otherwise; no later step (a change of NODE_ENV, a further
\* getPrismaClient call) alters the configuration of a constructed client,
\* and a call that finds the client cached returns that client.
C23_LogLevelsFixedAtConstruction ==
  /\ [][getPrismaClient /\ prisma = NULL
          => /\ env.NODE_ENV = "development" => logConfig'[prisma'] = <<"query", "error", "warn">>
             /\ env.NODE_ENV # "development" => logConfig'[prisma'] = <<"error">>]_vars
  /\ [][\A c \in 1..constructed : logConfig'[c] = logConfig[c]]_vars
  /\ [][getPrismaClient /\ prisma # NULL
          => lastP'.client = prisma /\ logConfig'[lastP'.client] = logConfig[prisma]]_vars

C23_Witness ==
  /\ lastP = Observation("getPrismaClient", "returned", 1, "none")
  /\ Len(returnLog) >= 2
  /\ constructed = 1
  /\ logConfig[1] = <<"error">>
  /\ env.NODE_ENV = "development"

\* C22 (as stated): every document model the package lists as available is
\* exported by the models barrel, so a service can write to the collection
\* of each of them.
C22_EveryListedModelExported ==
  \A m \in AvailableModels : m \in ExportedModels /\ CollectionOf(m) \in DOMAIN docs

\* C24 (as stated): under any interleaving of disconnectPrisma, the shutdown
\* hooks and getPrismaClient, the cached handle is reset to null only while
\* it holds the client whose $disconnect was awaited (or nothing), so every
\* client dropped from the cache has had $disconnect invoked on it.
C24_DropsOnlyDisconnectedClient ==
  /\ [][\A p \in BagToSet(prismaPending) :
          disconnectSettled(p) => prisma \in {NULL, p.client}]_vars
  /\ [][prisma # NULL /\ prisma' = NULL => disconnectCalls[prisma] > 0]_vars

\* C25 (as stated): of the connectMongoDB calls issued before the first of
\* them has resolved at most one invokes mongoose.connect, and when they
\* resolve the connection listeners and the signal hooks have been
\* registered at most once.
C25_ConcurrentConnectsShareOneAttempt ==
  /\ [](PendingConnects <= 1)
  /\ [][connectFulfilled
          => /\ \A e \in ConnectionEvents : connListeners'[e] <= connListeners[e] + 1
             /\ \A e \in MongoSignals : mongoHooks'[e] <= mongoHooks[e] + 1]_vars

\* C26 (as stated): whenever no connectMongoDB, disconnectMongoDB or hook
\* call is in flight, isConnected is true exactly when the mongoose
\* connection is open.
C26_FlagTracksConnection ==
  mongoPending = EmptyBag => (isConnected <=> connState = "open")

\* C27 (as stated): after any sequence of getPrismaClient and
\* disconnectPrisma calls at most one library-installed cleanup listener is
\* registered on each of beforeExit, SIGINT and SIGTERM.
C27_AtMostOnePrismaHook ==
  \A e \in ProcessEvents : prismaHooks[e] <= 1

\* C28 (as stated): in each document schema no two declared indexes have
\* the same key pattern with different options, the TTL index is the only
\* declared index on its key, and once the declared indexes have been built
\* in declaration order the collection has the TTL index.
C28_TtlIndexIsBuilt ==
  \A c \in Collections :
     indexes[c] # {}
       => /\ \A i, j \in DOMAIN SchemaOf(c) :
                SchemaOf(c)[i].key = SchemaOf(c)[j].key => SchemaOf(c)[i] = SchemaOf(c)[j]
          /\ \A i \in DOMAIN SchemaOf(c) :
                SchemaOf(c)[i].key = <<TtlField(c), 1>> => i = Len(SchemaOf(c))
          /\ Index(<<TtlField(c), 1>>, DeclaredTtl(c)) \in indexes[c]

\* the parent of the category with this id, NULL when it has none
ParentOf(id) ==
  IF \E r \in db["categories"] : r.id = id
  THEN (CHOOSE r \in db["categories"] : r.id = id).parentId
  ELSE NULL

\* the categories reached from a category by at most n parent steps
RECURSIVE Ancestors(_, _)
Ancestors(id, n) ==
  IF n = 0 \/ ParentOf(id) = NULL THEN {}
  ELSE {ParentOf(id)} \cup Ancestors(ParentOf(id), n - 1)

\* C29 (as stated): after any sequence of category inserts, parentId
\* updates and deletes the schema accepts, no category is its own parent or
\* ancestor.
C29_CategoriesFormForest ==
  \A r \in db["categories"] : r.id \notin Ancestors(r.id, Cardinality(db["categories"]))

\* C30: after any sequence of inserts, parentId updates and deletes the
\* schema accepts, every non-null column a foreign key declares names an
\* existing row of the referenced table: profiles and sessions a user;
\* comments, likes, bookmarks, post_categories and post_tags a post;
\* post_categories a category and post_tags a tag; media_variants a media;
\* a parentId a row of its own table.
C30_NoDanglingForeignKey ==
  \A fk \in ForeignKeys : \A r \in db[fk.table] :
     r[fk.column] # NULL => \E x \in db[fk.references] : x.id = r[fk.column]

C30_Witness ==
  /\ lastSql = Statement("insert", "comments", "foreign_key_violation", {}, 0)
  /\ db["posts"] = {[id |-> 2, authorId |-> 1, slug |-> "second"]}
  /\ db["comments"] = {[id |-> 2, postId |-> 2, authorId |-> 1, parentId |-> NULL]}
  /\ db["likes"] = {} /\ db["post_tags"] = {}

====
